---- MODULE Spec2Model ----
(***************************************************************************)
(* Model of the PEG workflow orchestration core:                           *)
(*   src/src/orchestrator.py  Orchestrator (graph executor, retry wrapper, *)
(*                            circuit breaker, history)                    *)
(*   src/src/loop_guard.py    detect_loop                                  *)
(*                                                                         *)
(* Scores are integers in hundredths (0.70 is 70, epsilon 0.02 is 2).      *)
(* Timestamps of history entries are left out.                             *)
(***************************************************************************)
EXTENDS Integers, Sequences, FiniteSets, TLC

\* ------------------------------------------------------------------ bounds
MaxAttempts == 2      \* retry.max_attempts ranges over 1..MaxAttempts
MaxThreshold == 3     \* retry.circuit_threshold ranges over 1..MaxThreshold
MaxN == 2             \* loop_guard.N ranges over 1..MaxN
MaxHistory == 10      \* no iteration starts once history has this many entries
MaxCalls == 2         \* execute_graph is called at most this often
MaxLoopHist == 4      \* length of the histories given to detect_loop alone
MaxLoopN == 3         \* N ranges over 1..MaxLoopN when detect_loop is called alone
MaxEdges == 3         \* length of the edge lists given to get_next_node alone
MaxChoose == 2        \* choose_macro is called at most this often, all sessions together
MaxBanditHist == 2    \* length of the histories given to choose_macro alone
MaxCycleHistory == 16 \* the history limit of the runs that stay in the build cycle
MaxLimit == 2         \* short_term_limit ranges over 0..MaxLimit
MaxAdds == 4          \* MemoryManager.add is called at most this often
MaxCommands == 5      \* the REPL reads at most this many commands

\* --------------------------------------------------------------- constants
None == "None"                 \* Python's None
End == "__end__"               \* orchestrator.py:121, the terminal node id
NoMacro == "None"              \* chosen_macro of a node that selects nothing
NoResult == [none |-> TRUE]    \* the local result while it is None
Epsilon == 2                   \* loop_guard.epsilon (0.02)
MinimumScore == 80             \* ci.minimum_score (0.8)
Scores == {70, 72, 75, 80}     \* values the scoring function may return
Macros == <<"macro_A", "macro_B">>

Range(s) == {s[i] : i \in 1..Len(s)}

\* ------------------------------------------------------------------ graphs
E(f, t) == [from |-> f, to |-> t]
EC(f, c, t) == [from |-> f, to |-> t, condition |-> c]

\* build -> review -> loop_detector -> export, the cycle of the design
GPipeline ==
  [entry_point |-> "build",
   nodes |-> {"build", "review", "loop_detector", "export", "fallback"},
   edges |-> << E("build", "review"),
                EC("review", "score_passed", "export"),
                EC("review", "validation_failed", "loop_detector"),
                EC("loop_detector", "loop_not_detected", "build"),
                EC("loop_detector", "loop_detected", "fallback") >>]

\* an edge that leads to the terminal id
GEnd ==
  [entry_point |-> "build",
   nodes |-> {"build", "export"},
   edges |-> << E("build", "export"), E("export", End) >>]

\* entry_point names no node (the default entry_point is "intake")
GDanglingEntry ==
  [entry_point |-> "intake",
   nodes |-> {"build", "export"},
   edges |-> << E("build", "export") >>]

\* an edge target names no node
GDanglingEdge ==
  [entry_point |-> "intake",
   nodes |-> {"intake", "export"},
   edges |-> << EC("intake", "success", "ghost"), EC("intake", "failure", "export") >>]

\* a failing node is reached again through its failure edge
GRetryCycle ==
  [entry_point |-> "intake",
   nodes |-> {"intake", "export"},
   edges |-> << EC("intake", "failure", "intake"), EC("intake", "success", "export") >>]

\* the unconditioned edge comes first in the edge list
GFallbackFirst ==
  [entry_point |-> "intake",
   nodes |-> {"intake", "build", "export"},
   edges |-> << E("intake", "export"), EC("intake", "success", "build"),
                E("build", "intake") >>]

\* export has an outgoing edge
GExportEdge ==
  [entry_point |-> "build",
   nodes |-> {"build", "export"},
   edges |-> << E("build", "export"), E("export", "build") >>]

\* a passing review leads back to build
GReviewCycle ==
  [entry_point |-> "build",
   nodes |-> {"build", "review", "export"},
   edges |-> << E("build", "review"), EC("review", "score_passed", "build"),
                EC("review", "validation_failed", "export") >>]

Graphs == {GPipeline, GEnd, GDanglingEntry, GDanglingEdge, GRetryCycle,
           GFallbackFirst, GExportEdge, GReviewCycle}

Configs ==
  [macros : {Macros},
   minimum_score : {MinimumScore},
   N : 1..MaxN,
   epsilon : {Epsilon},
   max_attempts : 1..MaxAttempts,
   circuit_threshold : 1..MaxThreshold]

\* How a node's behaviour fails: "ok" never raises, "raise" raises on every
\* attempt, "flaky" may raise on any attempt.  At most one node is not "ok".
Behaviours(g) ==
  {[n \in g.nodes |-> "ok"]} \cup
  {[n \in g.nodes |-> IF n = m THEN b ELSE "ok"] : m \in g.nodes, b \in {"raise", "flaky"}}

VARIABLES
  workflow_graph,   \* self.workflow_graph
  config,           \* self.config
  behaviour,        \* which nodes' behaviour raises
  current_node,     \* self.state["current_node"]
  history,          \* self.state["history"]
  last_score,       \* self.state["last_score"]
  output,           \* self.state["output"]
  loop_iterations,  \* self.state["loop_iterations"]
  fail_counts,      \* self.fail_counts (a missing key reads as 0)
  circuit_open,     \* self.circuit_open (a missing key reads as false)
  pc,               \* position in execute_graph: idle, loop, try, after
  retries,          \* local retries
  delay,            \* local delay
  slept,            \* the time.sleep calls of the current iteration
  result,           \* local result (None, or what _execute_node returned)
  attempts,         \* calls of _execute_node in the current iteration
  executed,         \* iterations that executed a node
  calls,            \* calls of execute_graph
  halt,             \* why the last call of execute_graph stopped (what it logged)
  ret,              \* what the last call of execute_graph returned
  history_limit,    \* no iteration starts once history has this many entries
  weights_file,     \* bandit_weights.json
  b_macros,         \* the macros argument of choose_macro
  b_history,        \* the history argument of choose_macro
  selector,         \* per session: the BanditSelector of its choose_macro call
  chooses,          \* calls of choose_macro so far
  mm,               \* the MemoryManager: short_term_limit, short_term, long_term
  mm_log,           \* per namespace, the messages given to add so far
  _current_orchestrator,  \* cli: the running workflow's Orchestrator, or None
  _workflow_paused,       \* cli: the pause flag
  _pending_refinements,   \* cli: the queued refinements
  cli_pc,           \* the REPL: off, prompt (reading a command), running (in run_workflow)
  commands,         \* the commands the REPL has read so far
  printed           \* the last message a command printed

runState == <<current_node, history, last_score, output, loop_iterations>>
breaker == <<fail_counts, circuit_open>>
locals == <<retries, delay, slept, result, attempts>>
setup == <<workflow_graph, config, behaviour>>
bandit == <<weights_file, b_macros, b_history, selector, chooses>>
memory == <<mm, mm_log>>
cli == <<_current_orchestrator, _workflow_paused, _pending_refinements, cli_pc,
         commands, printed>>
rest == <<history_limit, bandit, memory, cli>>
vars == <<workflow_graph, config, behaviour, current_node, history, last_score,
          output, loop_iterations, fail_counts, circuit_open, pc, retries, delay, slept,
          result, attempts, executed, calls, halt, ret, history_limit,
          weights_file, b_macros, b_history, selector, chooses, mm, mm_log,
          _current_orchestrator, _workflow_paused, _pending_refinements, cli_pc,
          commands, printed>>

\* ------------------------------------------------------- Orchestrator helpers
\* dict.get(key, default) and dict[key] = value on a dict kept as a function
Get(dict, key, default) == IF key \in DOMAIN dict THEN dict[key] ELSE default
Put(dict, key, value) ==
  [k \in DOMAIN dict \cup {key} |-> IF k = key THEN value ELSE dict[k]]
EmptyDict == [k \in {} |-> 0]

NodeIds == workflow_graph.nodes

\* get_node_details: the node with this id, or None
get_node_details(node_id) == IF node_id \in NodeIds THEN node_id ELSE None

HasCondition(e) == "condition" \in DOMAIN e

\* line 65: the edge leaves current_node_id and carries this condition
EdgeMatches(edge, current_node_id, condition) ==
  edge.from = current_node_id /\ HasCondition(edge) /\ edge.condition = condition

\* line 69: the edge leaves current_node_id and carries no condition
EdgeFallsBack(edge, current_node_id) ==
  edge.from = current_node_id /\ ~HasCondition(edge)

\* lines 64-66: the first scan; the index of the edge it returns from, 0 if none
RECURSIVE FirstMatch(_, _, _, _)
FirstMatch(edges, i, current_node_id, condition) ==
  IF i > Len(edges) THEN 0
  ELSE IF EdgeMatches(edges[i], current_node_id, condition) THEN i
  ELSE FirstMatch(edges, i + 1, current_node_id, condition)

\* lines 68-70: the second scan
RECURSIVE FirstFallback(_, _, _)
FirstFallback(edges, i, current_node_id) ==
  IF i > Len(edges) THEN 0
  ELSE IF EdgeFallsBack(edges[i], current_node_id) THEN i
  ELSE FirstFallback(edges, i + 1, current_node_id)

\* one scan that takes the first edge that matches or falls back
RECURSIVE FirstUsable(_, _, _, _)
FirstUsable(edges, i, current_node_id, condition) ==
  IF i > Len(edges) THEN 0
  ELSE IF EdgeMatches(edges[i], current_node_id, condition)
          \/ EdgeFallsBack(edges[i], current_node_id) THEN i
  ELSE FirstUsable(edges, i + 1, current_node_id, condition)

NextNodeOf_OneScan(edges, current_node_id, condition) ==
  LET c == FirstUsable(edges, 1, current_node_id, condition)
  IN  IF c # 0 THEN edges[c].to ELSE None

\* without a path the node stays where it is
NextNodeOf_Stay(edges, current_node_id, condition) ==
  LET c == FirstMatch(edges, 1, current_node_id, condition)
  IN  IF c # 0 THEN edges[c].to
      ELSE LET u == FirstFallback(edges, 1, current_node_id)
           IN  IF u # 0 THEN edges[u].to ELSE current_node_id

\* get_next_node over an edge list
NextNodeOf(edges, current_node_id, condition) ==
  LET c == FirstMatch(edges, 1, current_node_id, condition)
  IN  IF c # 0 THEN edges[c].to
      ELSE LET u == FirstFallback(edges, 1, current_node_id)
           IN  IF u # 0 THEN edges[u].to ELSE None

get_next_node(current_node_id, condition) ==
  NextNodeOf(workflow_graph.edges, current_node_id, condition)

\* ------------------------------------------------------------- detect_loop
IsBuildAction(h) == h.node = "build" /\ "macro" \in DOMAIN h

Last(s, n) == SubSeq(s, Len(s) - n + 1, Len(s))

\* the improvement compared with >= instead of >
NoImprovement_AtLeast(recent, N, epsilon) ==
  \A i \in 1..(N - 1) : ~(recent[i + 1].score - recent[i].score >= epsilon)

\* lines 39-43: no pair of consecutive recent builds improved by more than epsilon
NoImprovement(recent, N, epsilon) ==
  \A i \in 1..(N - 1) : ~(recent[i + 1].score - recent[i].score > epsilon)

detect_loop(hist, N, epsilon) ==
  LET build_actions == SelectSeq(hist, IsBuildAction)
  IN  IF Len(build_actions) < N THEN FALSE
      ELSE LET recent_builds == Last(build_actions, N)
               last_macro == recent_builds[1].macro
           IN  IF ~(\A i \in 1..N : recent_builds[i].macro = last_macro) THEN FALSE
               ELSE NoImprovement(recent_builds, N, epsilon)

\* ------------------------------------------------------ bandit_selector.py
\* Arm statistics are kept in units of 1/Scale, so that MaxChoose decays by
\* 9/10 are exact.
DecayNum == 9
DecayDen == 10
SampleDen == 2                 \* a Beta sample is one of 0, 1/2, 1
SampleSet == 0..SampleDen
Sessions == {1, 2}

RECURSIVE Pow10(_)
Pow10(n) == IF n = 0 THEN 1 ELSE 10 * Pow10(n - 1)
Scale == Pow10(MaxChoose)

\* line 164 of orchestrator.py and line 45 here: a macro counts when it is truthy
Truthy(m) == m \notin {None, ""}

\* lines 41, 51: the uniform prior of an arm seen for the first time
Prior == [successes |-> Scale, failures |-> Scale, plays |-> 0, total_reward |-> 0]

\* the value is assigned whether or not the key exists
SetDefault_Overwrite(dict, key, value) == Put(dict, key, value)

SetDefault(dict, key, value) == IF key \in DOMAIN dict THEN dict ELSE Put(dict, key, value)

Decayed(x) == (x * DecayNum) \div DecayDen

\* lines 34-37
DecayStats(stats) ==
  [successes |-> Decayed(stats.successes), failures |-> Decayed(stats.failures),
   plays |-> Decayed(stats.plays), total_reward |-> Decayed(stats.total_reward)]

\* decay without regard to the history
DecayAll_Unconditional(weights, hist) ==
  [m \in DOMAIN weights |-> DecayStats(weights[m])]

\* lines 32-37: every tracked arm decays when the history is not empty
DecayAll(weights, hist) ==
  IF Len(hist) > 0 THEN [m \in DOMAIN weights |-> DecayStats(weights[m])] ELSE weights

\* lines 40-41
RECURSIVE EnsureArms(_, _, _)
EnsureArms(weights, macros, i) ==
  IF i > Len(macros) THEN weights
  ELSE EnsureArms(SetDefault(weights, macros[i], Prior), macros, i + 1)

\* the reward is always derived from the score
Reward_ScoreOnly(record, pass_threshold) ==
  IF Get(record, "score", 0) >= pass_threshold THEN 1 ELSE 0

\* lines 47-50
Reward(record, pass_threshold) ==
  IF "reward" \in DOMAIN record THEN record.reward
  ELSE IF Get(record, "score", 0) >= pass_threshold THEN 1 ELSE 0

\* lines 52-57
Credit(stats, reward) ==
  [successes |-> stats.successes + (IF reward # 0 THEN Scale ELSE 0),
   failures |-> stats.failures + (IF reward # 0 THEN 0 ELSE Scale),
   plays |-> stats.plays + Scale,
   total_reward |-> stats.total_reward + reward * Scale]

\* lines 43-57
RECURSIVE Replay(_, _, _, _)
Replay(weights, hist, i, pass_threshold) ==
  IF i > Len(hist) THEN weights
  ELSE LET record == hist[i]
           macro == Get(record, "macro", None)
       IN  IF ~Truthy(macro) THEN Replay(weights, hist, i + 1, pass_threshold)
           ELSE LET w == SetDefault(weights, macro, Prior)
                IN  Replay(Put(w, macro, Credit(w[macro], Reward(record, pass_threshold))),
                           hist, i + 1, pass_threshold)

\* the history is replayed only into a store that holds no arm yet
UpdatedWeights_ReplayOnce(weights, macros, hist, pass_threshold) ==
  IF DOMAIN weights = {}
  THEN Replay(EnsureArms(DecayAll(weights, hist), macros, 1), hist, 1, pass_threshold)
  ELSE EnsureArms(DecayAll(weights, hist), macros, 1)

\* lines 32-57: the statistics after decay, initialisation and replay
UpdatedWeights(weights, macros, hist, pass_threshold) ==
  Replay(EnsureArms(DecayAll(weights, hist), macros, 1), hist, 1, pass_threshold)

\* lines 63-65: the sample plus the exploration bonus 1 / (1 + plays), a fraction
Adjusted(stats, sample) ==
  [num |-> sample * (Scale + stats.plays) + SampleDen * Scale,
   den |-> SampleDen * (Scale + stats.plays)]

\* a later sample that equals the best one replaces it
Greater_OrEqual(a, b) == a.num * b.den >= b.num * a.den

\* line 66: sample > best_sample
Greater(a, b) == a.num * b.den > b.num * a.den

\* line 60: best_sample = -1.0
LowestSample == [num |-> 0 - 1, den |-> 1]

\* lines 61-68: the loop over the candidates
RECURSIVE PickLoop(_, _, _, _, _, _)
PickLoop(candidates, weights, samples, i, best_macro, best_sample) ==
  IF i > Len(candidates) THEN best_macro
  ELSE LET sample == Adjusted(weights[candidates[i]], samples[candidates[i]])
       IN  IF Greater(sample, best_sample)
           THEN PickLoop(candidates, weights, samples, i + 1, candidates[i], sample)
           ELSE PickLoop(candidates, weights, samples, i + 1, best_macro, best_sample)

\* a set as a sequence, in some order
RECURSIVE SeqOf(_)
SeqOf(S) == IF S = {} THEN <<>> ELSE LET x == CHOOSE y \in S : TRUE IN <<x>> \o SeqOf(S \ {x})

\* the loop runs over every tracked arm
Candidates_Tracked(macros, weights) == SeqOf(DOMAIN weights)

\* line 61: the loop runs over the requested macros
Candidates(macros, weights) == macros

\* lines 59-68, 73-75: what choose returns for these samples
ChooseResult(macros, weights, samples) ==
  LET best_macro == PickLoop(Candidates(macros, weights), weights, samples, 1,
                             None, LowestSample)
  IN  IF best_macro = None /\ Len(macros) > 0 THEN macros[1] ELSE best_macro

\* the selection is counted as a play of the chosen arm
AfterSelection_CountsPlay(weights, best_macro) ==
  IF best_macro \in DOMAIN weights
  THEN Put(weights, best_macro, Credit(weights[best_macro], 0))
  ELSE weights

\* line 70: the selection only counts in metrics; the statistics stay
AfterSelection(weights, best_macro) == weights

JsonDump_PlayedOnly(weights) ==
  {[name |-> m, stats |-> weights[m]] :
     m \in {a \in DOMAIN weights : weights[a].plays > 0}}

\* json.dump of the weights: one member per arm
JsonDump(weights) == {[name |-> m, stats |-> weights[m]] : m \in DOMAIN weights}

\* json.load of a document: the dict of its members
JsonLoad(doc) ==
  [m \in {member.name : member \in doc} |->
     (CHOOSE member \in doc : member.name = m).stats]

FileAbsent == [state |-> "absent", doc |-> {}]
FileWritten(doc) == [state |-> "written", doc |-> doc]
FileUnreadable == [state |-> "unreadable", doc |-> {}]

NoSelector ==
  [pc |-> "idle", weights |-> EmptyDict, loaded |-> FileAbsent,
   samples |-> EmptyDict, ret |-> None]

\* the state of the bandit while only the executor is looked at
BanditUnused ==
  /\ weights_file = FileAbsent
  /\ b_macros = Macros
  /\ b_history = <<>>
  /\ selector = [s \in Sessions |-> NoSelector]
  /\ chooses = 0

\* ------------------------------------------------------------ MemoryManager
Namespaces == {"task1", "task2"}
Messages == {"msg0", "msg1"}

\* memory_manager.py:15-18: the object after construction
NewMemoryManager(limit) ==
  [short_term_limit |-> limit, short_term |-> EmptyDict, long_term |-> EmptyDict]

\* line 36, list[-n:]: the last n elements, and the whole list when n is 0
\* (-0 is 0) or n is at least the length
LastSlice(list, n) ==
  IF n = 0 \/ n >= Len(list) THEN list
  ELSE SubSeq(list, Len(list) - n + 1, Len(list))

\* line 33: " ".join(buffer), kept as the list of the joined messages
Join(buffer) == [joined |-> buffer]

\* lines 28-36
summarize(m, namespace) ==
  LET buffer == Get(m.short_term, namespace, <<>>)
  IN  IF Len(buffer) = 0 THEN m
      ELSE [m EXCEPT
              !.long_term = Put(m.long_term, namespace,
                                Append(Get(m.long_term, namespace, <<>>), Join(buffer))),
              !.short_term = Put(m.short_term, namespace,
                                 LastSlice(buffer, m.short_term_limit))]

\* lines 21-26
add(m, namespace, message) ==
  LET buffer == Append(Get(m.short_term, namespace, <<>>), message)
      appended == [m EXCEPT !.short_term = Put(m.short_term, namespace, buffer)]
  IN  IF Len(buffer) > m.short_term_limit THEN summarize(appended, namespace)
      ELSE appended

MemoryUnused ==
  /\ mm = NewMemoryManager(0)
  /\ mm_log = EmptyDict

\* cli.py lines 361-363: the module's globals; no REPL is running
CliUnused ==
  /\ _current_orchestrator = None
  /\ _workflow_paused = FALSE
  /\ _pending_refinements = <<>>
  /\ cli_pc = "off"
  /\ commands = <<>>
  /\ printed = ""

\* ------------------------------------------------------------ _execute_node
\* what choose_macro may return: a requested macro, or None for an empty list
ChooseOutcomes(macros) == IF Len(macros) = 0 THEN {NoMacro} ELSE Range(macros)

OutputFrom(macro) == <<"Output from", macro>>

Res(action_result, chosen_macro) ==
  [action_result |-> action_result, chosen_macro |-> chosen_macro]

\* the score has to exceed the minimum
ReviewResult_Strict(score) ==
  IF score > config.minimum_score THEN "score_passed" ELSE "validation_failed"

ReviewResult(score) ==
  IF score >= config.minimum_score THEN "score_passed" ELSE "validation_failed"

\* a build starts from a score of zero
ExecBuild_ResetsScore ==
  \E m \in ChooseOutcomes(config.macros) :
     /\ output' = OutputFrom(m)
     /\ loop_iterations' = loop_iterations + 1
     /\ result' = Res("success", m)
     /\ last_score' = 0

ExecBuild ==
  \E m \in ChooseOutcomes(config.macros) :
     /\ output' = OutputFrom(m)
     /\ loop_iterations' = loop_iterations + 1
     /\ result' = Res("success", m)
     /\ UNCHANGED last_score

\* every review resets the iteration counter
ExecReview_ResetsAlways ==
  \E score \in Scores :
     /\ last_score' = score
     /\ loop_iterations' = 0
     /\ result' = Res(ReviewResult(score), NoMacro)
     /\ UNCHANGED output

ExecReview ==
  \E score \in Scores :
     /\ last_score' = score
     /\ loop_iterations' = IF ReviewResult(score) = "score_passed" THEN 0 ELSE loop_iterations
     /\ result' = Res(ReviewResult(score), NoMacro)
     /\ UNCHANGED output

ExecLoopDetector ==
  /\ result' = Res(IF detect_loop(history, config.N, config.epsilon)
                   THEN "loop_detected" ELSE "loop_not_detected", NoMacro)
  /\ UNCHANGED <<last_score, output, loop_iterations>>

\* export replaces the artifact by its own
ExecExport_WritesOutput ==
  /\ result' = Res(End, NoMacro)
  /\ output' = OutputFrom(End)
  /\ UNCHANGED <<last_score, loop_iterations>>

ExecExport ==
  /\ result' = Res(End, NoMacro)
  /\ UNCHANGED <<last_score, output, loop_iterations>>

ExecOther ==
  /\ result' = Res("success", NoMacro)
  /\ UNCHANGED <<last_score, output, loop_iterations>>

execute_node(id) ==
  CASE id = "build" -> ExecBuild
    [] id = "review" -> ExecReview
    [] id = "loop_detector" -> ExecLoopDetector
    [] id = "export" -> ExecExport
    [] OTHER -> ExecOther

\* ------------------------------------------------------------ execute_graph
Init ==
  /\ workflow_graph \in Graphs
  /\ config \in Configs
  /\ behaviour \in Behaviours(workflow_graph)
  /\ current_node = workflow_graph.entry_point
  /\ history = <<>>
  /\ last_score = 0
  /\ output = None
  /\ loop_iterations = 0
  /\ fail_counts = EmptyDict
  /\ circuit_open = EmptyDict
  /\ pc = "idle"
  /\ retries = 0
  /\ delay = 1
  /\ slept = <<>>
  /\ result = NoResult
  /\ attempts = 0
  /\ executed = 0
  /\ calls = 0
  /\ halt = "none"
  /\ ret = None
  /\ history_limit = MaxHistory
  /\ BanditUnused
  /\ MemoryUnused
  /\ CliUnused

\* every call starts again at the entry point
Call_FromEntryPoint ==
  /\ pc = "idle"
  /\ calls < MaxCalls
  /\ calls' = calls + 1
  /\ pc' = "loop"
  /\ halt' = "none"
  /\ ret' = None
  /\ current_node' = workflow_graph.entry_point
  /\ UNCHANGED <<rest, setup, history, last_score, output, loop_iterations,
                 breaker, locals, executed>>

\* a caller calls execute_graph on the executor
Call ==
  /\ pc = "idle"
  /\ calls < MaxCalls
  /\ calls' = calls + 1
  /\ pc' = "loop"
  /\ halt' = "none"
  /\ ret' = None
  /\ UNCHANGED <<rest, setup, runState, breaker, locals, executed>>

\* the while condition is false: execute_graph returns
LoopExit ==
  /\ pc = "loop"
  /\ current_node \in {None, End}
  /\ pc' = "idle"
  /\ halt' = IF current_node = End THEN "End" ELSE "NoPathForward"
  /\ ret' = None
  /\ UNCHANGED <<rest, setup, runState, breaker, locals, executed, calls>>

\* the lookup result is not tested
NodeMissing_Unchecked == FALSE

\* lines 122-125: the node is not in the graph
NodeMissing == get_node_details(current_node) = None

HaltNodeNotFound ==
  /\ pc = "loop"
  /\ current_node \notin {None, End}
  /\ NodeMissing
  /\ pc' = "idle"
  /\ halt' = "GraphIntegrityError"
  /\ ret' = None
  /\ UNCHANGED <<rest, setup, runState, breaker, locals, executed, calls>>

\* the circuit breaker is never consulted
CircuitIsOpen_Ignored(id) == FALSE

\* lines 127-129: the node's circuit breaker is open
CircuitIsOpen(id) == Get(circuit_open, id, FALSE)

\* a half-open breaker: finding the circuit open closes it and resets the count
HaltCircuitOpen_Recovers ==
  /\ pc = "loop"
  /\ current_node \notin {None, End}
  /\ ~NodeMissing
  /\ CircuitIsOpen(current_node)
  /\ circuit_open' = Put(circuit_open, current_node, FALSE)
  /\ fail_counts' = Put(fail_counts, current_node, 0)
  /\ pc' = "idle"
  /\ halt' = "CircuitOpen"
  /\ ret' = None
  /\ UNCHANGED <<rest, setup, runState, locals, executed, calls>>

HaltCircuitOpen ==
  /\ pc = "loop"
  /\ current_node \notin {None, End}
  /\ ~NodeMissing
  /\ CircuitIsOpen(current_node)
  /\ pc' = "idle"
  /\ halt' = "CircuitOpen"
  /\ ret' = None
  /\ UNCHANGED <<rest, setup, runState, breaker, locals, executed, calls>>

\* the retry loop gives up when the failure counter reaches the threshold
RetryAgain_UntilThreshold(r) ==
  /\ r < config.max_attempts
  /\ Get(fail_counts, current_node, 0) + 1 < config.circuit_threshold

\* line 144: time.sleep(delay), after every attempt that raised
Slept(sleeps, d, r) == Append(sleeps, d)

\* line 135: while retries < max_retries
RetryAgain(r) == r < config.max_attempts

\* lines 131-135: the retry loop is entered
BeginRetry ==
  /\ pc = "loop"
  /\ current_node \notin {None, End}
  /\ ~NodeMissing
  /\ ~CircuitIsOpen(current_node)
  /\ Len(history) < history_limit
  /\ retries' = 0
  /\ delay' = 1
  /\ slept' = <<>>
  /\ result' = NoResult
  /\ attempts' = 0
  /\ executed' = executed + 1
  /\ pc' = IF RetryAgain(0) THEN "try" ELSE "after"
  /\ UNCHANGED <<rest, setup, runState, breaker, calls, halt, ret>>

\* every counter is cleared by a success
CountsAfterSuccess_ClearAll(id) == EmptyDict

\* line 138: self.fail_counts[node['id']] = 0
CountsAfterSuccess(id) == Put(fail_counts, id, 0)

\* line 142: self.fail_counts[node['id']] = self.fail_counts.get(node['id'], 0) + 1
CountsAfterFailure(id) == Put(fail_counts, id, Get(fail_counts, id, 0) + 1)

MayRaise(id) == behaviour[id] \in {"raise", "flaky"}
MaySucceed(id) == behaviour[id] \in {"ok", "flaky"}

\* lines 136-139: an attempt that returns
AttemptSucceeds ==
  /\ pc = "try"
  /\ MaySucceed(current_node)
  /\ execute_node(current_node)
  /\ fail_counts' = CountsAfterSuccess(current_node)
  /\ attempts' = attempts + 1
  /\ pc' = "after"
  /\ UNCHANGED <<rest, setup, current_node, history, circuit_open, retries, delay, slept,
                 executed, calls, halt, ret>>

\* the except clause misses the exception
ExceptionCaught_TooNarrow == FALSE

\* line 140: the except clause catches what the behaviours raise
ExceptionCaught == TRUE

\* lines 140-145: an attempt that raises; an exception that is not caught
\* leaves execute_graph (pc = "raised")
AttemptRaises ==
  /\ pc = "try"
  /\ MayRaise(current_node)
  /\ attempts' = attempts + 1
  /\ IF ExceptionCaught
     THEN /\ retries' = retries + 1
          /\ fail_counts' = CountsAfterFailure(current_node)
          /\ slept' = Slept(slept, delay, retries + 1)
          /\ delay' = delay * 2
          /\ pc' = IF RetryAgain(retries + 1) THEN "try" ELSE "after"
          /\ UNCHANGED halt
     ELSE /\ pc' = "raised"
          /\ halt' = "Exception"
          /\ UNCHANGED <<retries, fail_counts, delay, slept>>
  /\ UNCHANGED <<rest, setup, runState, circuit_open, result, executed, calls, ret>>

\* the circuit opens on any failed iteration
ThresholdReached_AnyFailure(id) == Get(fail_counts, id, 0) > 0

\* the threshold compared with > instead of >=
ThresholdReached_Strict(id) == Get(fail_counts, id, 0) > config.circuit_threshold

\* line 148: the circuit opens
ThresholdReached(id) == Get(fail_counts, id, 0) >= config.circuit_threshold

\* lines 147-151: the result of the iteration
IterationResult == IF result = NoResult THEN Res("failure", NoMacro) ELSE result

\* the macro key is written for every node
HistoryEntry_AlwaysMacro(id, r) ==
  [node |-> id, result |-> r.action_result, score |-> last_score,
   macro |-> r.chosen_macro]

\* lines 158-165: the entry of an iteration; macro only when one was chosen
HistoryEntry(id, r) ==
  LET entry == [node |-> id, result |-> r.action_result, score |-> last_score]
  IN  IF Truthy(r.chosen_macro)
      THEN [f \in DOMAIN entry \cup {"macro"} |->
              IF f = "macro" THEN r.chosen_macro ELSE entry[f]]
      ELSE entry

\* a synthetic failure is not recorded
RecordEntry_SkipFailure(hist, id, r) ==
  IF r.action_result = "failure" THEN hist ELSE Append(hist, HistoryEntry(id, r))

\* the newest entry first
RecordEntry_Prepend(hist, id, r) == <<HistoryEntry(id, r)>> \o hist

\* line 166: the entry is appended to the history
RecordEntry(hist, id, r) == Append(hist, HistoryEntry(id, r))

\* the run stops as soon as an iteration opens the circuit
Finish_HaltsWhenOpened ==
  /\ pc = "after"
  /\ circuit_open' = IF result = NoResult /\ ThresholdReached(current_node)
                     THEN Put(circuit_open, current_node, TRUE)
                     ELSE circuit_open
  /\ history' = RecordEntry(history, current_node, IterationResult)
  /\ current_node' = get_next_node(current_node, IterationResult.action_result)
  /\ pc' = IF circuit_open' # circuit_open THEN "idle" ELSE "loop"
  /\ halt' = IF circuit_open' # circuit_open THEN "CircuitOpen" ELSE halt
  /\ ret' = IF circuit_open' # circuit_open THEN None ELSE ret
  /\ UNCHANGED <<rest, setup, last_score, output, loop_iterations, fail_counts, locals,
                 executed, calls>>

\* lines 147-175: the rest of the iteration
Finish ==
  /\ pc = "after"
  /\ circuit_open' = IF result = NoResult /\ ThresholdReached(current_node)
                     THEN Put(circuit_open, current_node, TRUE)
                     ELSE circuit_open
  /\ history' = RecordEntry(history, current_node, IterationResult)
  /\ current_node' = get_next_node(current_node, IterationResult.action_result)
  /\ pc' = "loop"
  /\ UNCHANGED <<rest, setup, last_score, output, loop_iterations, fail_counts, locals,
                 executed, calls, halt, ret>>

Next ==
  \/ Call
  \/ LoopExit
  \/ HaltNodeNotFound
  \/ HaltCircuitOpen
  \/ BeginRetry
  \/ AttemptSucceeds
  \/ AttemptRaises
  \/ Finish

Spec == Init /\ [][Next]_vars

\* ---------------------------------------------------- detect_loop on its own
\* detect_loop is called on histories of any shape: entries of build with and
\* without a macro, and entries of other nodes with and without a macro.
LoopScores == {70, 72, 75}
LoopEntries ==
  {[node |-> "build", result |-> "success", score |-> s, macro |-> m] :
      s \in LoopScores, m \in Range(Macros)}
  \cup {[node |-> "build", result |-> "failure", score |-> 70],
        [node |-> "review", result |-> "validation_failed", score |-> 75],
        [node |-> "review", result |-> "validation_failed", score |-> 75,
         macro |-> "macro_A"]}

LoopConfigs ==
  [macros : {Macros}, minimum_score : {MinimumScore}, N : 1..MaxLoopN,
   epsilon : {0, Epsilon}, max_attempts : {1}, circuit_threshold : {1}]

InitLoop ==
  /\ workflow_graph = GPipeline
  /\ config \in LoopConfigs
  /\ behaviour = [n \in GPipeline.nodes |-> "ok"]
  /\ current_node = "loop_detector"
  /\ history = <<>>
  /\ last_score = 0
  /\ output = None
  /\ loop_iterations = 0
  /\ fail_counts = EmptyDict
  /\ circuit_open = EmptyDict
  /\ pc = "detect_loop"
  /\ retries = 0
  /\ delay = 1
  /\ slept = <<>>
  /\ result = NoResult
  /\ attempts = 0
  /\ executed = 0
  /\ calls = 0
  /\ halt = "none"
  /\ ret = detect_loop(<<>>, config.N, config.epsilon)
  /\ history_limit = MaxLoopHist
  /\ BanditUnused
  /\ MemoryUnused
  /\ CliUnused

\* one more entry is recorded and detect_loop is called on the history
DetectLoopCall ==
  /\ pc = "detect_loop"
  /\ Len(history) < MaxLoopHist
  /\ \E entry \in LoopEntries :
        /\ history' = Append(history, entry)
        /\ ret' = detect_loop(history', config.N, config.epsilon)
  /\ UNCHANGED <<rest, setup, current_node, last_score, output, loop_iterations, breaker,
                 pc, locals, executed, calls, halt>>

NextLoop == DetectLoopCall

SpecLoop == InitLoop /\ [][NextLoop]_vars

\* -------------------------------------------------- get_next_node on its own
NextEdges ==
  {E(f, t) : f \in {"a", "b"}, t \in {"p", "q", "r"}}
  \cup {EC(f, c, t) : f \in {"a", "b"}, c \in {"x", "y"}, t \in {"p", "q", "r"}}

InitNext ==
  /\ workflow_graph = [entry_point |-> "a", nodes |-> {"a", "b"}, edges |-> <<>>]
  /\ config \in {c \in LoopConfigs : c.N = 1 /\ c.epsilon = Epsilon}
  /\ behaviour = [n \in {"a", "b"} |-> "ok"]
  /\ current_node = "a"
  /\ history = <<>>
  /\ last_score = 0
  /\ output = None
  /\ loop_iterations = 0
  /\ fail_counts = EmptyDict
  /\ circuit_open = EmptyDict
  /\ pc = "edges"
  /\ retries = 0
  /\ delay = 1
  /\ slept = <<>>
  /\ result = NoResult
  /\ attempts = 0
  /\ executed = 0
  /\ calls = 0
  /\ halt = "none"
  /\ ret = None
  /\ history_limit = MaxHistory
  /\ BanditUnused
  /\ MemoryUnused
  /\ CliUnused

\* the graph document gets one more edge
AddEdge ==
  /\ pc = "edges"
  /\ Len(workflow_graph.edges) < MaxEdges
  /\ \E edge \in NextEdges :
        workflow_graph' = [workflow_graph EXCEPT !.edges = Append(@, edge)]
  /\ UNCHANGED <<rest, config, behaviour, runState, breaker, pc, locals, executed, calls,
                 halt, ret>>

\* get_next_node is called for a node and a result
GetNextNodeCall ==
  /\ pc = "edges"
  /\ \E node_id \in {"a", "b"}, condition \in {"x", "y", "z"} :
        /\ current_node' = node_id
        /\ result' = Res(condition, NoMacro)
        /\ ret' = get_next_node(node_id, condition)
  /\ pc' = "resolved"
  /\ UNCHANGED <<rest, setup, history, last_score, output, loop_iterations, breaker,
                 retries, delay, slept, attempts, executed, calls, halt>>

NextNext == AddEdge \/ GetNextNodeCall

SpecNext == InitNext /\ [][NextNext]_vars

\* ---------------------------------------------------- choose_macro on its own
\* Sessions call choose_macro(macros, history, config) on one weights file.
BanditEntries ==
  {[node |-> "build", result |-> "success", score |-> 90, macro |-> "macro_A"],
   [node |-> "build", result |-> "success", score |-> 30, macro |-> "macro_A"],
   [node |-> "build", result |-> "success", score |-> 80, macro |-> "macro_B"],
   [node |-> "build", result |-> "success", score |-> 30, macro |-> "macro_C",
    reward |-> 1],
   [node |-> "review", result |-> "validation_failed", score |-> 30]}

BanditMacroLists ==
  {<<>>, <<"macro_A">>, <<"macro_A", "macro_B">>, <<"macro_B", "macro_A">>}

BanditHistories == UNION {[1..n -> BanditEntries] : n \in 0..MaxBanditHist}

\* the executor at rest, while another function is looked at
ExecutorUnused ==
  /\ workflow_graph = GPipeline
  /\ config \in {c \in LoopConfigs : c.N = 1 /\ c.epsilon = Epsilon}
  /\ behaviour = [n \in GPipeline.nodes |-> "ok"]
  /\ current_node = GPipeline.entry_point
  /\ history = <<>>
  /\ last_score = 0
  /\ output = None
  /\ loop_iterations = 0
  /\ fail_counts = EmptyDict
  /\ circuit_open = EmptyDict
  /\ retries = 0
  /\ delay = 1
  /\ slept = <<>>
  /\ result = NoResult
  /\ attempts = 0
  /\ executed = 0
  /\ calls = 0
  /\ halt = "none"
  /\ ret = None
  /\ history_limit = MaxHistory

executor == <<setup, runState, breaker, pc, locals, executed, calls, halt, ret,
              history_limit>>

InitBandit ==
  /\ ExecutorUnused
  /\ pc = "choose_macro"
  /\ weights_file = FileAbsent
  /\ b_macros \in BanditMacroLists
  /\ b_history \in BanditHistories
  /\ selector = [s \in Sessions |-> NoSelector]
  /\ chooses = 0
  /\ MemoryUnused
  /\ CliUnused

Idle(s) == selector[s].pc \in {"idle", "returned", "raised"}

\* lines 79, 15-25: choose_macro builds a selector, which loads the file
Construct(s) ==
  /\ Idle(s)
  /\ chooses < MaxChoose
  /\ weights_file.state # "unreadable"
  /\ chooses' = chooses + 1
  /\ selector' = [selector EXCEPT ![s] =
        [pc |-> "loaded",
         weights |-> IF weights_file.state = "absent" THEN EmptyDict
                     ELSE JsonLoad(weights_file.doc),
         loaded |-> weights_file,
         samples |-> EmptyDict,
         ret |-> None]]
  /\ UNCHANGED <<memory, cli, executor, weights_file, b_macros, b_history>>

\* lines 23-24: json.load raises on a file that is being written or is damaged
ConstructRaises(s) ==
  /\ Idle(s)
  /\ chooses < MaxChoose
  /\ weights_file.state = "unreadable"
  /\ chooses' = chooses + 1
  /\ selector' = [selector EXCEPT ![s] =
        [NoSelector EXCEPT !.pc = "raised", !.ret = "JSONDecodeError"]]
  /\ UNCHANGED <<memory, cli, executor, weights_file, b_macros, b_history>>

\* lines 32-70: the statistics are updated and a macro is picked
Choose(s) ==
  /\ selector[s].pc = "loaded"
  /\ LET weights == UpdatedWeights(selector[s].weights, b_macros, b_history,
                                   config.minimum_score)
     IN  \E samples \in [Range(Candidates(b_macros, weights)) -> SampleSet] :
            LET best_macro == ChooseResult(b_macros, weights, samples)
            IN  selector' = [selector EXCEPT ![s] =
                   [@ EXCEPT !.pc = "picked",
                             !.weights = AfterSelection(weights, best_macro),
                             !.samples = samples,
                             !.ret = best_macro]]
  /\ UNCHANGED <<memory, cli, executor, weights_file, b_macros, b_history, chooses>>

\* lines 71, 28: _save opens the file for writing, which empties it
SaveOpen(s) ==
  /\ selector[s].pc = "picked"
  /\ weights_file' = FileUnreadable
  /\ selector' = [selector EXCEPT ![s].pc = "saving"]
  /\ UNCHANGED <<memory, cli, executor, b_macros, b_history, chooses>>

\* lines 29, 73-75, 80: json.dump writes the weights and choose returns.  When
\* another session has written since this one opened the file, the two writes
\* overlap: the file holds this session's document or is damaged.
SaveDump(s) ==
  /\ selector[s].pc = "saving"
  /\ \/ weights_file' = FileWritten(JsonDump(selector[s].weights))
     \/ /\ weights_file.state = "written"
        /\ weights_file' = FileUnreadable
  /\ selector' = [selector EXCEPT ![s].pc = "returned"]
  /\ UNCHANGED <<memory, cli, executor, b_macros, b_history, chooses>>

NextBandit ==
  \E s \in Sessions :
     \/ Construct(s)
     \/ ConstructRaises(s)
     \/ Choose(s)
     \/ SaveOpen(s)
     \/ SaveDump(s)

SpecBandit == InitBandit /\ [][NextBandit]_vars

\* choose_macro called from one thread, as the orchestrator's build node does:
\* a call starts when no other call is under way
CallChooseMacro(s) ==
  /\ \A t \in Sessions \ {s} : Idle(t)
  /\ Construct(s)

NextSerial ==
  \E s \in Sessions :
     \/ CallChooseMacro(s)
     \/ Choose(s)
     \/ SaveOpen(s)
     \/ SaveDump(s)

SpecSerial == InitBandit /\ [][NextSerial]_vars

\* ------------------------------------------- the review cycle on its own
\* execute_graph on the pipeline graph with nodes that never raise: the halts
\* for a missing node and an open circuit cannot happen.
CycleConfigs ==
  {c \in Configs : c.max_attempts = 1 /\ c.circuit_threshold = 1}

InitCycle ==
  /\ workflow_graph = GPipeline
  /\ config \in CycleConfigs
  /\ behaviour = [n \in GPipeline.nodes |-> "ok"]
  /\ current_node = workflow_graph.entry_point
  /\ history = <<>>
  /\ last_score = 0
  /\ output = None
  /\ loop_iterations = 0
  /\ fail_counts = EmptyDict
  /\ circuit_open = EmptyDict
  /\ pc = "idle"
  /\ retries = 0
  /\ delay = 1
  /\ slept = <<>>
  /\ result = NoResult
  /\ attempts = 0
  /\ executed = 0
  /\ calls = 0
  /\ halt = "none"
  /\ ret = None
  /\ history_limit = MaxCycleHistory
  /\ BanditUnused
  /\ MemoryUnused
  /\ CliUnused

NextCycle ==
  \/ Call
  \/ LoopExit
  \/ BeginRetry
  \/ AttemptSucceeds
  \/ Finish

SpecCycle == InitCycle /\ [][NextCycle]_vars

\* ------------------------------------------------- MemoryManager on its own
InitMemory ==
  /\ ExecutorUnused
  /\ pc = "memory"
  /\ BanditUnused
  /\ CliUnused
  /\ mm \in {NewMemoryManager(limit) : limit \in 0..MaxLimit}
  /\ mm_log = EmptyDict

Added == LET RECURSIVE Sum(_)
             Sum(S) == IF S = {} THEN 0
                       ELSE LET n == CHOOSE x \in S : TRUE
                            IN  Len(mm_log[n]) + Sum(S \ {n})
         IN  Sum(DOMAIN mm_log)

\* a caller adds a message to a namespace
MemoryAdd ==
  /\ Added < MaxAdds
  /\ \E namespace \in Namespaces, message \in Messages :
        /\ mm' = add(mm, namespace, message)
        /\ mm_log' = Put(mm_log, namespace,
                         Append(Get(mm_log, namespace, <<>>), message))
  /\ UNCHANGED <<executor, bandit, cli>>

NextMemory == MemoryAdd

SpecMemory == InitMemory /\ [][NextMemory]_vars

\* -------------------------------------------------- one caller of choose
\* Calls of choose_macro by one caller, on histories with explicit rewards and
\* on weights files that earlier calls have left.
ChooseEntries ==
  BanditEntries \cup
  {[node |-> "build", result |-> "success", score |-> 90, macro |-> "macro_A",
    reward |-> 0],
   [macro |-> "macro_B", reward |-> 1]}

ChooseHistories == UNION {[1..n -> ChooseEntries] : n \in 0..MaxBanditHist}

Stats(s, f, p, t) ==
  [successes |-> s * Scale, failures |-> f * Scale, plays |-> p * Scale,
   total_reward |-> t * Scale]

\* what bandit_weights.json holds after choose_macro(["macro_A"], h, config)
\* on a new file, for h of one passing build of macro_A and for h of one
\* rewarded entry of macro_C
StoredFiles ==
  {FileWritten(JsonDump([m \in {"macro_A"} |-> Stats(2, 1, 1, 1)])),
   FileWritten(JsonDump([m \in {"macro_A", "macro_C"} |->
                           IF m = "macro_A" THEN Prior ELSE Stats(2, 1, 1, 1)]))}

InitChoose ==
  /\ ExecutorUnused
  /\ pc = "choose"
  /\ MemoryUnused
  /\ CliUnused
  /\ weights_file \in {FileAbsent} \cup StoredFiles
  /\ b_macros \in BanditMacroLists
  /\ b_history \in ChooseHistories
  /\ selector = [s \in Sessions |-> NoSelector]
  /\ chooses = 0

Caller == 1

NextChoose ==
  \/ Construct(Caller)
  \/ Choose(Caller)
  \/ SaveOpen(Caller)
  \/ SaveDump(Caller)

SpecChoose == InitChoose /\ [][NextChoose]_vars

\* ------------------------------------------------------------ the cli REPL
\* The REPL of cli.py reads one command at a time and runs its handler to the
\* end before it reads the next.  The workflow files on disk are the graph, the
\* configuration and the behaviours the state starts with.
CliGraphs == {GDanglingEdge, GRetryCycle}
CliConfigs == {c \in CycleConfigs : c.N = 1}
Refinements == {"", " ", "use macro_B"}
Handle == "Orchestrator"

\* how far run_workflow gets before it calls execute_graph
RunOutcomes == {"no workflow file", "no config file", "import error", "raises", "started"}

InitCli ==
  /\ workflow_graph \in CliGraphs
  /\ config \in CliConfigs
  /\ behaviour \in Behaviours(workflow_graph)
  /\ current_node = workflow_graph.entry_point
  /\ history = <<>>
  /\ last_score = 0
  /\ output = None
  /\ loop_iterations = 0
  /\ fail_counts = EmptyDict
  /\ circuit_open = EmptyDict
  /\ pc = "idle"
  /\ retries = 0
  /\ delay = 1
  /\ slept = <<>>
  /\ result = NoResult
  /\ attempts = 0
  /\ executed = 0
  /\ calls = 0
  /\ halt = "none"
  /\ ret = None
  /\ history_limit = MaxHistory
  /\ BanditUnused
  /\ MemoryUnused
  /\ _current_orchestrator = None
  /\ _workflow_paused = FALSE
  /\ _pending_refinements = <<>>
  /\ cli_pc = "prompt"
  /\ commands = <<>>
  /\ printed = ""

\* cli.py lines 93-94: the REPL reads a command
Reads(command) ==
  /\ cli_pc = "prompt"
  /\ Len(commands) < MaxCommands
  /\ commands' = Append(commands, command)

\* cli.py line 392 and orchestrator.py lines 24-42, then cli.py line 395: a new
\* Orchestrator is constructed and its execute_graph called
ConstructedAndCalled ==
  /\ current_node' = workflow_graph.entry_point
  /\ history' = <<>>
  /\ last_score' = 0
  /\ output' = None
  /\ loop_iterations' = 0
  /\ fail_counts' = EmptyDict
  /\ circuit_open' = EmptyDict
  /\ retries' = 0
  /\ delay' = 1
  /\ slept' = <<>>
  /\ result' = NoResult
  /\ attempts' = 0
  /\ executed' = 0
  /\ calls' = 1
  /\ halt' = "none"
  /\ ret' = None
  /\ pc' = "loop"

\* cli.py lines 366-395: run_workflow up to its call of execute_graph
run_workflow ==
  /\ Reads("run")
  /\ IF _current_orchestrator # None
     THEN /\ printed' = "[WARN] Workflow already running"
          /\ UNCHANGED <<_current_orchestrator, cli_pc, executor>>
     ELSE \E outcome \in RunOutcomes :
            IF outcome = "started"
            THEN /\ printed' = "[OK] Starting workflow"
                 /\ _current_orchestrator' = Handle
                 /\ cli_pc' = "running"
                 /\ ConstructedAndCalled
                 /\ UNCHANGED <<setup, history_limit>>
            ELSE /\ printed' = IF outcome = "no workflow file"
                                 THEN "[FAIL] Workflow file not found"
                               ELSE IF outcome = "no config file"
                                 THEN "[FAIL] SessionConfig.json not found"
                               ELSE IF outcome = "import error"
                                 THEN "[FAIL] Could not import orchestrator"
                               ELSE "[FAIL] Workflow execution failed"
                 /\ _current_orchestrator' = None
                 /\ UNCHANGED <<cli_pc, executor>>
  /\ UNCHANGED <<_workflow_paused, _pending_refinements, bandit, memory>>

\* the handle outlives the run
run_workflow_returns_KeepsHandle ==
  /\ cli_pc = "running"
  /\ pc = "idle"
  /\ printed' = "[OK] Workflow completed"
  /\ cli_pc' = "prompt"
  /\ UNCHANGED <<_current_orchestrator, _workflow_paused, _pending_refinements, commands,
                 executor, bandit, memory>>

\* cli.py lines 397-398: execute_graph has returned; the handle is cleared
run_workflow_returns ==
  /\ cli_pc = "running"
  /\ pc = "idle"
  /\ printed' = "[OK] Workflow completed"
  /\ _current_orchestrator' = None
  /\ cli_pc' = "prompt"
  /\ UNCHANGED <<_workflow_paused, _pending_refinements, commands, executor, bandit,
                 memory>>

\* cli.py lines 423-435
stop_workflow ==
  /\ Reads("stop")
  /\ IF _current_orchestrator = None
     THEN /\ printed' = "[OK] No workflow currently running"
          /\ UNCHANGED <<_current_orchestrator, _workflow_paused, _pending_refinements>>
     ELSE /\ _current_orchestrator' = None
          /\ _workflow_paused' = FALSE
          /\ _pending_refinements' = <<>>
          /\ printed' = "[OK] Workflow stopped"
  /\ UNCHANGED <<cli_pc, executor, bandit, memory>>

\* cli.py lines 442-449: the body of pause_workflow
Paused ==
  IF _current_orchestrator = None
  THEN /\ printed' = "[WARN] No workflow currently running"
       /\ UNCHANGED _workflow_paused
  ELSE /\ _workflow_paused' = TRUE
       /\ printed' = "[OK] Use 'resume' to continue execution"

\* cli.py lines 438-449
pause_workflow ==
  /\ Reads("pause")
  /\ Paused
  /\ UNCHANGED <<_current_orchestrator, _pending_refinements, cli_pc, executor, bandit,
                 memory>>

\* cli.py lines 452-470
resume_workflow ==
  /\ Reads("resume")
  /\ IF _current_orchestrator = None
     THEN /\ printed' = "[WARN] No workflow currently running"
          /\ UNCHANGED <<_workflow_paused, _pending_refinements>>
     ELSE IF ~_workflow_paused
     THEN /\ printed' = "[WARN] Workflow is not paused"
          /\ UNCHANGED <<_workflow_paused, _pending_refinements>>
     ELSE /\ _workflow_paused' = FALSE
          /\ _pending_refinements' = <<>>
          /\ printed' = IF _pending_refinements # <<>>
                         THEN "[OK] Applying pending refinements"
                         ELSE "[OK] Workflow resumed"
  /\ UNCHANGED <<_current_orchestrator, cli_pc, executor, bandit, memory>>

\* cli.py line 517: not refinement.strip()
Blank(refinement) == refinement \in {"", " "}

\* cli.py lines 510-537; the handler ends with a call of pause_workflow
refine_current_step(refinement) ==
  /\ Reads("refine")
  /\ IF _current_orchestrator = None
     THEN /\ printed' = "[WARN] No workflow currently running"
          /\ UNCHANGED <<_workflow_paused, _pending_refinements>>
     ELSE IF Blank(refinement)
     THEN /\ printed' = "[WARN] Please specify refinement details"
          /\ UNCHANGED <<_workflow_paused, _pending_refinements>>
     ELSE /\ _pending_refinements' =
               Append(_pending_refinements,
                      [timestamp |-> "now", refinement |-> refinement,
                       step |-> current_node])
          /\ Paused
  /\ UNCHANGED <<_current_orchestrator, cli_pc, executor, bandit, memory>>

NextCli ==
  \/ run_workflow
  \/ LoopExit
  \/ HaltNodeNotFound
  \/ HaltCircuitOpen
  \/ BeginRetry
  \/ AttemptSucceeds
  \/ AttemptRaises
  \/ Finish
  \/ run_workflow_returns
  \/ stop_workflow
  \/ pause_workflow
  \/ resume_workflow
  \/ \E refinement \in Refinements : refine_current_step(refinement)

SpecCli == InitCli /\ [][NextCli]_vars

\* ===================================================================== claims
BetweenIterations == pc \in {"idle", "loop"}
AlwaysRaises(n) == behaviour[n] = "raise"
Count(n) == Get(fail_counts, n, 0)
IsOpen(n) == Get(circuit_open, n, FALSE)
LastEntry == history[Len(history)]

\* C1 (as stated): between iterations, the circuit of a node that raises on
\* every attempt is open exactly when its failure count has reached
\* circuit_threshold, and it opened at a count of exactly circuit_threshold.
C1_OpensAtExactlyThreshold ==
  \A n \in NodeIds :
     (AlwaysRaises(n) /\ BetweenIterations) =>
        /\ IsOpen(n) <=> Count(n) >= config.circuit_threshold
        /\ IsOpen(n) => Count(n) = config.circuit_threshold

\* C1 (amended): between iterations, the circuit of a node that raises on
\* every attempt is open exactly when its failure count has reached
\* circuit_threshold; the count at which it opened is the smallest multiple of
\* max_attempts that is at least circuit_threshold, and it grows no further.
C1_OpensAtEndOfIteration ==
  \A n \in NodeIds :
     (AlwaysRaises(n) /\ BetweenIterations) =>
        /\ IsOpen(n) <=> Count(n) >= config.circuit_threshold
        /\ Count(n) % config.max_attempts = 0
        /\ IsOpen(n) => Count(n) - config.max_attempts < config.circuit_threshold

C1_Witness ==
  \E n \in NodeIds :
     /\ AlwaysRaises(n) /\ BetweenIterations /\ IsOpen(n)
     /\ Count(n) > config.circuit_threshold
     /\ Count(n) > config.max_attempts

\* C2: when the loop reaches a node whose circuit is open, execute_graph
\* returns at once: no attempt, no history entry, run state and failure
\* counters unchanged.
C2_OpenCircuitHalts ==
  [][(pc = "loop" /\ current_node \in NodeIds /\ IsOpen(current_node)) =>
        /\ pc' = "idle"
        /\ halt' = "CircuitOpen"
        /\ UNCHANGED <<runState, fail_counts, circuit_open, attempts, executed>>]_vars

C2_Witness ==
  /\ pc = "idle" /\ halt = "CircuitOpen" /\ calls = 2
  /\ IsOpen(current_node) /\ Len(history) > 0

\* C3: between iterations the history has one entry per iteration that
\* executed a node (one less while an iteration is under way); halting on a
\* missing node or on an open circuit adds none.
C3_HistoryCountsExecutedNodes ==
  /\ BetweenIterations => Len(history) = executed
  /\ pc \in {"try", "after"} => Len(history) = executed - 1

C3_Witness ==
  /\ pc = "idle" /\ halt = "CircuitOpen" /\ executed >= 2
  /\ Len(history) = executed /\ LastEntry.result = "failure"

\* C4: detect_loop holds exactly when the history has at least N entries of
\* build that carry a macro, the last N of them carry one macro, and no
\* consecutive pair of them improves the score by more than epsilon.
BuildIndexes(h) == {i \in 1..Len(h) : h[i].node = "build" /\ "macro" \in DOMAIN h[i]}
LastBuildIndexes(h, N) ==
  {i \in BuildIndexes(h) : Cardinality({j \in BuildIndexes(h) : j >= i}) <= N}
Consecutive(S, i, j) == i \in S /\ j \in S /\ i < j /\ ~(\E k \in S : i < k /\ k < j)
LoopExpected(h, N, epsilon) ==
  /\ Cardinality(BuildIndexes(h)) >= N
  /\ \A i, j \in LastBuildIndexes(h, N) : h[i].macro = h[j].macro
  /\ \A i, j \in LastBuildIndexes(h, N) :
        Consecutive(LastBuildIndexes(h, N), i, j) => h[j].score - h[i].score <= epsilon

C4_DetectLoopIff ==
  pc = "detect_loop" => (ret <=> LoopExpected(history, config.N, config.epsilon))

C4_Witness ==
  /\ pc = "detect_loop" /\ ret = TRUE /\ config.N = 3 /\ Len(history) = 4
  /\ history[2].node # "build"
  /\ history[4].score - history[3].score = config.epsilon
  /\ history[3].score < history[1].score

\* C5: no exception of a behaviour leaves execute_graph; an iteration whose
\* attempts all raised appends the entry (node, failure, last_score) without a
\* macro and the loop goes on.
C5_FailureIsRecorded ==
  [][/\ pc' # "raised"
     /\ (pc = "after" /\ result = NoResult) =>
           /\ history' = Append(history, [node |-> current_node, result |-> "failure",
                                          score |-> last_score])
           /\ pc' = "loop"]_vars

C5_Witness ==
  /\ pc = "loop" /\ Len(history) > 0
  /\ LastEntry.node = "build" /\ LastEntry.result = "failure"
  /\ "macro" \notin DOMAIN LastEntry
  /\ config.max_attempts = 2

\* C6: when execute_graph has returned, the caller holds the reason why it
\* stopped.
C6_HaltReasonReturned ==
  (pc = "idle" /\ calls > 0) => ret = halt

\* C7: when current_node names no node of the graph, execute_graph returns at
\* once: no attempt, no history entry, run state, failure counters and
\* circuits unchanged.
C7_MissingNodeHalts ==
  [][(pc = "loop" /\ current_node \notin {None, End} /\ current_node \notin NodeIds) =>
        /\ pc' = "idle"
        /\ halt' = "GraphIntegrityError"
        /\ UNCHANGED <<runState, fail_counts, circuit_open, attempts, executed>>]_vars

C7_Witness ==
  /\ pc = "idle" /\ halt = "GraphIntegrityError"
  /\ current_node = "ghost" /\ Len(history) > 0

\* C8: get_next_node returns the target of the first edge from the node that
\* carries the result as its condition; only when there is none, the target of
\* the first edge from the node without a condition; else None.
Least(S) == CHOOSE i \in S : \A j \in S : i <= j
MatchingEdges(edges, cur, cond) ==
  {i \in 1..Len(edges) :
     edges[i].from = cur /\ "condition" \in DOMAIN edges[i] /\ edges[i].condition = cond}
FallbackEdges(edges, cur) ==
  {i \in 1..Len(edges) : edges[i].from = cur /\ "condition" \notin DOMAIN edges[i]}
NextExpected(edges, cur, cond) ==
  IF MatchingEdges(edges, cur, cond) # {}
  THEN edges[Least(MatchingEdges(edges, cur, cond))].to
  ELSE IF FallbackEdges(edges, cur) # {}
       THEN edges[Least(FallbackEdges(edges, cur))].to
       ELSE None

C8_NextNodeResolution ==
  pc = "resolved" =>
     ret = NextExpected(workflow_graph.edges, current_node, result.action_result)

C8_Witness ==
  LET edges == workflow_graph.edges
      m == MatchingEdges(edges, current_node, result.action_result)
      f == FallbackEdges(edges, current_node)
  IN  /\ pc = "resolved" /\ m # {} /\ f # {}
      /\ Least(f) < Least(m)
      /\ edges[Least(f)].to # edges[Least(m)].to
      /\ ret = edges[Least(m)].to

\* C9: when the executed node has no edge for its result and no edge without a
\* condition, its entry is appended and current_node becomes None; from then on
\* no node is executed, in this call or a later one.
NoEdgeFor(id, res) ==
  ~(\E i \in 1..Len(workflow_graph.edges) :
       /\ workflow_graph.edges[i].from = id
       /\ ("condition" \in DOMAIN workflow_graph.edges[i] =>
             workflow_graph.edges[i].condition = res))

C9_NoPathForwardHalts ==
  [][/\ (pc = "after" /\ NoEdgeFor(current_node, IterationResult.action_result)) =>
           /\ Len(history') = Len(history) + 1
           /\ history'[Len(history')].node = current_node
           /\ current_node' = None
     /\ (BetweenIterations /\ current_node = None) =>
           /\ pc' \in {"idle", "loop"}
           /\ UNCHANGED <<runState, fail_counts, circuit_open, attempts, executed>>]_vars

C9_Witness ==
  /\ pc = "idle" /\ calls = 2 /\ halt = "NoPathForward" /\ current_node = None
  /\ Len(history) > 1 /\ LastEntry.node = "fallback" /\ LastEntry.result = "success"

\* C10: the entry of an executed export (result __end__) is the last entry of
\* the history and no node is executed after it.
C10_ExportEndsRun ==
  \A i \in 1..Len(history) :
     history[i].result = End => (i = Len(history) /\ BetweenIterations)

\* -------------------------------------------------------------- selection
Picked(s) == selector[s].pc \in {"picked", "saving", "returned"}
Returned(s) == selector[s].pc = "returned"
TrackedArms(s) == DOMAIN selector[s].weights
HistoryArms == {b_history[i].macro :
                  i \in {j \in 1..Len(b_history) : "macro" \in DOMAIN b_history[j]}}

\* C11: for a non-empty list of strategies, whatever the history and the
\* weights file hold, choose returns a member of the requested strategies:
\* never an arm that is only tracked or only in the history, never None.
C11_ChoosesRequestedMacro ==
  \A s \in Sessions :
     (Picked(s) /\ Len(b_macros) > 0) =>
        /\ selector[s].ret \in Range(b_macros)
        /\ selector[s].ret \in ChooseOutcomes(b_macros)
        /\ selector[s].ret # None

\* a call returned while the store tracks an arm that was not requested
C11_Witness ==
  \E s \in Sessions :
     /\ Returned(s)
     /\ Len(b_macros) > 0
     /\ selector[s].loaded.state = "written"
     /\ (TrackedArms(s) \cap HistoryArms) \ Range(b_macros) # {}

\* C12: with an empty list of strategies choose signals a failure to its
\* caller and does not return an empty pick.
C12_EmptySetSignalsFailure ==
  \A s \in Sessions :
     (Picked(s) /\ Len(b_macros) = 0) => selector[s].ret # None

\* C13: the arm statistics after choose are a function of the store that was
\* loaded, the strategies and the history: two selectors that loaded the same
\* store hold the same statistics whatever each of them picked.
C13_UpdateIsDeterministic ==
  \A s, t \in Sessions :
     (Picked(s) /\ Picked(t) /\ selector[s].loaded = selector[t].loaded) =>
        selector[s].weights = selector[t].weights

\* two selectors on the same loaded store and history picked differently
C13_Witness ==
  \E s, t \in Sessions :
     /\ Picked(s) /\ Picked(t)
     /\ selector[s].loaded = selector[t].loaded
     /\ selector[s].ret # selector[t].ret
     /\ selector[s].samples # selector[t].samples
     /\ Len(b_history) > 0

\* C14: in calls made one after another, when choose returns the weights file
\* holds the selector's in-memory arm statistics, and the selector constructed
\* by the next call starts from the statistics with which the previous call
\* ended.
C14_StoreEqualsMemory ==
  [][\A s \in Sessions :
       /\ (selector[s].pc = "saving" /\ selector'[s].pc = "returned") =>
             /\ weights_file'.state = "written"
             /\ JsonLoad(weights_file'.doc) = selector'[s].weights
       /\ (selector[s].pc # "loaded" /\ selector'[s].pc = "loaded") =>
             \/ chooses = 0 /\ selector'[s].weights = EmptyDict
             \/ \E t \in Sessions :
                   /\ Returned(t)
                   /\ selector'[s].weights = selector[t].weights]_vars

\* a second call has loaded what the first call saved, arms without a play
\* included
C14_Witness ==
  \E s, t \in Sessions :
     /\ Returned(t)
     /\ selector[s].pc = "loaded"
     /\ selector[s].weights = selector[t].weights
     /\ \E m \in TrackedArms(s) : selector[s].weights[m].plays = 0
     /\ \E m \in TrackedArms(s) : selector[s].weights[m].plays > 0

\* C15: concurrent calls of choose_macro on one weights file are serialized.
\* After one call of each session on a new file, the file holds the
\* statistics of two calls made one after the other, and no call failed.
SerialWeights ==
  LET once == UpdatedWeights(EmptyDict, b_macros, b_history, config.minimum_score)
      first == AfterSelection(once, None)
  IN  AfterSelection(UpdatedWeights(first, b_macros, b_history,
                                    config.minimum_score), None)

C15_ConcurrentCallsSerialized ==
  ((\A s \in Sessions : selector[s].pc \in {"returned", "raised"})
     /\ chooses = Cardinality(Sessions)
     /\ \A s \in Sessions : selector[s] # NoSelector) =>
        /\ \A s \in Sessions : Returned(s)
        /\ weights_file.state = "written"
        /\ JsonLoad(weights_file.doc) = SerialWeights

\* -------------------------------------------------------------- the cycle
RECURSIVE BuildsUpTo(_)
BuildsUpTo(i) ==
  IF i = 0 THEN <<>>
  ELSE IF IsBuildAction(history[i])
       THEN Append(BuildsUpTo(i - 1), <<history[i].macro, history[i].score>>)
       ELSE BuildsUpTo(i - 1)

\* what detect_loop looks at when entry i is appended: the last N builds
DetectorView(i) ==
  LET builds == BuildsUpTo(i)
  IN  IF Len(builds) < config.N THEN builds ELSE Last(builds, config.N)

NotDetectedAt(i) ==
  /\ history[i].node = "loop_detector"
  /\ history[i].result = "loop_not_detected"

\* C16: a run in the cycle build, review, loop_detector whose reviews never
\* pass is caught by the loop detector.  In a finite run: the detector never
\* answers loop_not_detected twice on the same view of the recent builds,
\* since from such a repetition the run can go round the cycle forever.
C16_CycleIsCaught ==
  \A i, j \in 1..Len(history) :
     (i < j /\ NotDetectedAt(i) /\ NotDetectedAt(j)) =>
        DetectorView(i) # DetectorView(j)

\* C17: once a node's circuit is open it stays open, and the node's failure
\* counter is not reset, in every later step and call of execute_graph.
C17_OpenCircuitStaysOpen ==
  [][\A n \in NodeIds \cup {workflow_graph.entry_point} :
        IsOpen(n) => (IsOpen(n)' /\ Count(n)' = Count(n))]_vars

\* a later call of execute_graph has found the circuit open and returned
C17_Witness ==
  \E n \in NodeIds :
     /\ IsOpen(n)
     /\ behaviour[n] = "flaky"
     /\ calls >= 2
     /\ pc = "idle"
     /\ halt = "CircuitOpen"

\* C18: history is append-only: an executed iteration appends exactly one
\* entry at the end and no step removes, reorders or modifies an entry.
C18_HistoryAppendOnly ==
  [][/\ \/ history' = history
        \/ /\ Len(history') = Len(history) + 1
           /\ SubSeq(history', 1, Len(history)) = history
     /\ (pc = "after" /\ pc' # "after") => Len(history') = Len(history) + 1]_vars

\* iterations of build, review and loop_detector were appended in order
C18_Witness ==
  /\ Len(history) >= 4
  /\ history[1].node = "build"
  /\ history[2].node = "review"
  /\ history[3].node = "loop_detector"
  /\ history[4].node = "build"

\* ----------------------------------------------------------------- memory
\* the n most recently added elements of a list
MostRecent(list, n) ==
  IF n >= Len(list) THEN list ELSE SubSeq(list, Len(list) - n + 1, Len(list))

\* C21: after any sequence of add operations, with any short_term_limit >= 0,
\* every namespace's short-term buffer holds at most short_term_limit
\* messages, the most recently added ones in order, and every namespace that
\* has received more than short_term_limit messages has a long-term summary.
C21_ShortTermBounded ==
  \A n \in DOMAIN mm_log :
     /\ Len(mm.short_term[n]) <= mm.short_term_limit
     /\ mm.short_term[n] = MostRecent(mm_log[n], Len(mm.short_term[n]))
     /\ Len(mm_log[n]) > mm.short_term_limit =>
           Len(Get(mm.long_term, n, <<>>)) >= 1

\* ------------------------------------------------------------ the attempts
\* C22: in one iteration a node is attempted at most max_attempts times, the
\* attempts stop at the first success, and all max_attempts attempts are made
\* even when the failure counter reaches circuit_threshold before the last
\* attempt: the circuit is evaluated only after the attempts.
C22_AttemptsBounded ==
  /\ attempts <= config.max_attempts
  /\ pc = "try" =>
        /\ attempts = retries
        /\ attempts < config.max_attempts
        /\ ~IsOpen(current_node)
  /\ pc = "after" =>
        \/ attempts = retries + 1
        \/ attempts = retries /\ attempts = config.max_attempts

\* the counter has reached the threshold and a further attempt follows
C22_Witness ==
  /\ pc = "try"
  /\ retries >= 1
  /\ Count(current_node) >= config.circuit_threshold

Others(dict, id) == [k \in DOMAIN dict \ {id} |-> dict[k]]

\* C23: a successful attempt of node n sets n's failure counter to zero, a
\* failed attempt of n adds exactly one to it, and no attempt of n changes
\* the failure counter or the circuit state of another node.
C23_CountersPerNode ==
  [][pc = "try" =>
       /\ retries' = retries => Count(current_node)' = 0
       /\ retries' # retries => Count(current_node)' = Count(current_node) + 1
       /\ Others(fail_counts', current_node) = Others(fail_counts, current_node)
       /\ Others(circuit_open', current_node) = Others(circuit_open, current_node)]_vars

\* a node has succeeded while another node's counter stands above zero
C23_Witness ==
  /\ pc = "after"
  /\ attempts = retries + 1
  /\ Count(current_node) = 0
  /\ \E n \in NodeIds \ {current_node} : Count(n) > 0

\* --------------------------------------------------------- node behaviours
\* a step in which the behaviour of node id returns
Succeeds(id) == pc = "try" /\ current_node = id /\ retries' = retries

\* C24: a successful review execution sets last_score to the obtained score,
\* yields score_passed exactly when the score is at least minimum_score and
\* validation_failed otherwise, sets loop_iterations to zero when it passes
\* and leaves loop_iterations unchanged when it does not.
C24_ReviewOutcome ==
  [][Succeeds("review") =>
       /\ last_score' \in Scores
       /\ result'.action_result =
             (IF last_score' >= config.minimum_score THEN "score_passed"
              ELSE "validation_failed")
       /\ loop_iterations' =
             (IF last_score' >= config.minimum_score THEN 0 ELSE loop_iterations)
       /\ result'.chosen_macro = NoMacro]_vars

\* a review has passed on the boundary after an earlier review failed
C24_Witness ==
  /\ pc = "after"
  /\ current_node = "review"
  /\ attempts = retries + 1
  /\ last_score = config.minimum_score
  /\ result.action_result = "score_passed"
  /\ loop_iterations = 0
  /\ \E i \in 1..Len(history) :
        /\ history[i].node = "review"
        /\ history[i].result = "validation_failed"

HasMacro(h) == "macro" \in DOMAIN h

\* C25: with a non-empty macro set, a successful build execution sets output
\* to the artifact tagged with the chosen macro, a member of the configured
\* macros, adds exactly one to loop_iterations, and its history entry carries
\* that macro; no entry of another node and no failure entry carries a macro.
C25_BuildRecordsMacro ==
  [][/\ Succeeds("build") =>
          /\ result'.action_result = "success"
          /\ result'.chosen_macro \in Range(config.macros)
          /\ output' = OutputFrom(result'.chosen_macro)
          /\ loop_iterations' = loop_iterations + 1
     /\ (pc = "after" /\ current_node = "build" /\ result # NoResult) =>
          /\ HasMacro(Last(history', 1)[1])
          /\ Last(history', 1)[1].macro = result.chosen_macro
     /\ \A i \in 1..Len(history') :
          HasMacro(history'[i]) =>
             /\ history'[i].node = "build"
             /\ history'[i].result = "success"
             /\ history'[i].macro \in Range(config.macros)]_vars

\* builds were recorded with both macros, next to a failure entry
C25_Witness ==
  /\ Len(config.macros) > 0
  /\ \E i, j \in 1..Len(history) :
        /\ HasMacro(history[i]) /\ HasMacro(history[j])
        /\ history[i].macro # history[j].macro
  /\ \E i \in 1..Len(history) : history[i].result = "failure"
  /\ HasMacro(LastEntry)
  /\ output = OutputFrom(LastEntry.macro)
  /\ loop_iterations >= 2

\* the history that the loop_detector execution recorded in entry j has seen
Before(j) == SubSeq(history, 1, j - 1)

\* the last N builds before entry j, each followed by its review
ReviewedBuilds(j) ==
  {b \in LastBuildIndexes(Before(j), config.N) : history[b + 1].node = "review"}

SameMacro(j) ==
  \A a, b \in ReviewedBuilds(j) : history[a].macro = history[b].macro

\* the review of build b improved on the review of the build before it
ReviewImproved(j, a, b) ==
  /\ Consecutive(ReviewedBuilds(j), a, b)
  /\ history[b + 1].score - history[a + 1].score > config.epsilon

\* C26: in the cycle build, review, loop_detector, when the last N builds chose
\* the same macro, the loop_detector that follows the N-th of their reviews
\* yields loop_detected if the review scores of those builds show no
\* improvement greater than epsilon from one to the next, and
\* loop_not_detected if one of them improved on its predecessor by more.
C26_DetectorJudgesReviews ==
  \A j \in 1..Len(history) :
     (/\ history[j].node = "loop_detector"
      /\ Cardinality(ReviewedBuilds(j)) = config.N
      /\ SameMacro(j)) =>
        IF \E a, b \in ReviewedBuilds(j) : ReviewImproved(j, a, b)
        THEN history[j].result = "loop_not_detected"
        ELSE history[j].result = "loop_detected"

\* ----------------------------------------------------- the update of choose
\* the store that the caller's selector loaded, and its statistics after choose
StoreBefore ==
  LET file == selector[Caller].loaded
  IN  IF file.state = "written" THEN JsonLoad(file.doc) ELSE EmptyDict
StoreAfter == selector[Caller].weights
Updated == Picked(Caller)

EntriesOf(m) ==
  {i \in 1..Len(b_history) : HasMacro(b_history[i]) /\ b_history[i].macro = m}

RewardOf(h) ==
  IF "reward" \in DOMAIN h THEN h.reward
  ELSE IF "score" \in DOMAIN h /\ h.score >= config.minimum_score THEN 1 ELSE 0

Rewarded(m) == Cardinality({i \in EntriesOf(m) : RewardOf(b_history[i]) = 1})

\* what the history adds to arm m
Evidence(m) ==
  Stats(Rewarded(m), Cardinality(EntriesOf(m)) - Rewarded(m),
        Cardinality(EntriesOf(m)), Rewarded(m))

Minus(a, b) ==
  [successes |-> a.successes - b.successes, failures |-> a.failures - b.failures,
   plays |-> a.plays - b.plays, total_reward |-> a.total_reward - b.total_reward]

Times(k, a) ==
  [successes |-> k * a.successes, failures |-> k * a.failures,
   plays |-> k * a.plays, total_reward |-> k * a.total_reward]

\* the statistics of arm m before the evidence of this call was added
WithoutEvidence(m) == Minus(StoreAfter[m], Evidence(m))

\* what arm m stood at when the replay began
ArmAtReplay(m) ==
  IF m \notin DOMAIN StoreBefore THEN Prior
  ELSE IF Len(b_history) > 0 THEN DecayStats(StoreBefore[m])
  ELSE StoreBefore[m]

\* C27: for each history entry that carries a macro, choose adds to that
\* macro's arm reward to successes, 1 - reward to failures, 1 to plays and
\* reward to total_reward, the reward being the entry's reward field if it has
\* one and else 1 if score >= pass threshold, 0 otherwise; entries without a
\* macro change no arm.
C27_ReplayAddsEvidence ==
  Updated =>
     /\ DOMAIN StoreAfter =
           DOMAIN StoreBefore \cup Range(b_macros) \cup HistoryArms
     /\ \A m \in DOMAIN StoreAfter :
           Minus(StoreAfter[m], ArmAtReplay(m)) = Evidence(m)

\* the history holds an entry whose reward field of 0 overrides its passing
\* score, counted as a failure, and an entry without a macro
C27_Witness ==
  /\ Updated
  /\ \E i \in 1..Len(b_history) :
        /\ "reward" \in DOMAIN b_history[i]
        /\ "score" \in DOMAIN b_history[i]
        /\ b_history[i].reward = 0
        /\ b_history[i].score >= config.minimum_score
        /\ StoreAfter[b_history[i].macro].failures >= Scale
  /\ \E j \in 1..Len(b_history) : ~HasMacro(b_history[j])

\* C28: when history is non-empty, choose multiplies successes, failures,
\* plays and total_reward of every arm of the store by the decay factor once,
\* before any entry is replayed; when history is empty it changes no
\* statistic of an arm of the store.
C28_DecayOncePerCall ==
  Updated =>
     \A m \in DOMAIN StoreBefore :
        IF Len(b_history) > 0
        THEN Times(DecayDen, WithoutEvidence(m)) = Times(DecayNum, StoreBefore[m])
        ELSE StoreAfter[m] = StoreBefore[m]

\* an arm with plays was decayed and then received evidence
C28_Witness ==
  /\ Updated
  /\ Len(b_history) > 0
  /\ \E m \in DOMAIN StoreBefore :
        /\ StoreBefore[m].plays > 0
        /\ Evidence(m).plays > 0
        /\ StoreAfter[m].plays = Decayed(StoreBefore[m].plays) + Evidence(m).plays

\* C29: a strategy, requested or in the history, that has no entry in the
\* store starts from successes = 1, failures = 1, plays = 0, total_reward = 0
\* before evidence is added, not decayed in the call that creates it; an arm
\* that exists is not reset to the prior.
C29_PriorForNewArms ==
  Updated =>
     /\ \A m \in (Range(b_macros) \cup HistoryArms) \ DOMAIN StoreBefore :
           /\ m \in DOMAIN StoreAfter
           /\ WithoutEvidence(m) = Stats(1, 1, 0, 0)
     /\ \A m \in DOMAIN StoreBefore :
           WithoutEvidence(m) \in {StoreBefore[m], DecayStats(StoreBefore[m])}

\* with a non-empty history, an arm was created from the history alone and
\* another from the request, next to an arm that the store held with plays
C29_Witness ==
  /\ Updated
  /\ Len(b_history) > 0
  /\ HistoryArms \ (DOMAIN StoreBefore \cup Range(b_macros)) # {}
  /\ Range(b_macros) \ (DOMAIN StoreBefore \cup HistoryArms) # {}
  /\ \E m \in DOMAIN StoreBefore : StoreBefore[m].plays > 0

\* ------------------------------------------------------- the pick of choose
\* the Beta sample drawn for macro m plus the bonus 1 / (1 + plays), as a
\* fraction
AdjustedSample(m) ==
  LET plays == StoreAfter[m].plays
      sample == selector[Caller].samples[m]
  IN  [num |-> sample * (Scale + plays) + SampleDen * Scale,
       den |-> SampleDen * (Scale + plays)]

Exceeds(a, b) == a.num * b.den > b.num * a.den

\* C30: choose returns the requested strategy whose adjusted sample is
\* highest, and among several with the highest adjusted sample the one that
\* comes first in the strategies list.
C30_HighestSampleFirstWins ==
  (Updated /\ Len(b_macros) > 0) =>
     \E i \in 1..Len(b_macros) :
        /\ selector[Caller].ret = b_macros[i]
        /\ \A j \in 1..Len(b_macros) :
              ~Exceeds(AdjustedSample(b_macros[j]), AdjustedSample(b_macros[i]))
        /\ \A j \in 1..(i - 1) :
              Exceeds(AdjustedSample(b_macros[i]), AdjustedSample(b_macros[j]))

\* two strategies with different plays and different Beta samples tie on the
\* adjusted sample, and the first of the list is returned
C30_Witness ==
  /\ Updated
  /\ Len(b_macros) = 2
  /\ selector[Caller].ret = b_macros[1]
  /\ selector[Caller].samples[b_macros[1]] # selector[Caller].samples[b_macros[2]]
  /\ ~Exceeds(AdjustedSample(b_macros[1]), AdjustedSample(b_macros[2]))
  /\ ~Exceeds(AdjustedSample(b_macros[2]), AdjustedSample(b_macros[1]))

\* ------------------------------------------------------ consecutive calls
\* C31: every choose call replays the whole history on top of the persisted
\* statistics: over consecutive calls with the same history holding c entries
\* of a macro, the arm's plays follow plays_k = d * plays_(k-1) + c, and
\* successes + failures grows by c per call after the decay.
C31_ReplayedEveryCall ==
  (Updated /\ Len(b_history) > 0) =>
     \A m \in DOMAIN StoreBefore :
        LET c == Cardinality(EntriesOf(m)) * Scale
            before == StoreBefore[m]
            after == StoreAfter[m]
        IN  /\ DecayDen * (after.plays - c) = DecayNum * before.plays
            /\ DecayDen * (after.successes + after.failures - c) =
                  DecayNum * (before.successes + before.failures)

\* the second call of the caller, on the result of the first, has counted the
\* two entries of one macro again
C31_Witness ==
  /\ Updated
  /\ chooses = 2
  /\ selector[Caller].loaded \notin StoredFiles
  /\ \E m \in DOMAIN StoreBefore :
        /\ Cardinality(EntriesOf(m)) = 2
        /\ StoreBefore[m].plays = 2 * Scale
        /\ StoreAfter[m].plays = Decayed(2 * Scale) + 2 * Scale

\* --------------------------------------------------------------- backoff
RECURSIVE Pow2(_)
Pow2(n) == IF n = 0 THEN 1 ELSE 2 * Pow2(n - 1)

AllAttemptsFailed == pc = "after" /\ attempts = retries

\* C32: within one iteration the delay slept after the k-th failed attempt is
\* 2^(k-1), the delay restarts at 1 in every iteration, and sleeps occur only
\* between attempts: no sleep follows an attempt after which no further
\* attempt is made.
C32_BackoffBetweenAttempts ==
  /\ \A k \in 1..Len(slept) : slept[k] = Pow2(k - 1)
  /\ pc = "try" => Len(slept) = retries
  /\ pc = "after" =>
        Len(slept) = (IF AllAttemptsFailed THEN retries - 1 ELSE retries)

\* -------------------------------------------------------------- the frame
Returns == pc = "try" /\ retries' = retries

DefaultResult(id) ==
  CASE id = "export" -> {End}
    [] id = "loop_detector" -> {"loop_detected", "loop_not_detected"}
    [] OTHER -> {"success"}

\* C33: last_score changes only in a review execution, output only in a build
\* execution, loop_iterations only in a build (plus one) and in a passing
\* review (to zero); a node with any other id, loop_detector and export
\* included, yields its result, success by default, and leaves the three
\* unchanged.
C33_BehavioursKeepToTheirState ==
  [][/\ last_score' # last_score => (Returns /\ current_node = "review")
     /\ output' # output => (Returns /\ current_node = "build")
     /\ loop_iterations' # loop_iterations =>
           \/ /\ Returns /\ current_node = "build"
              /\ loop_iterations' = loop_iterations + 1
           \/ /\ Returns /\ current_node = "review"
              /\ result'.action_result = "score_passed"
              /\ loop_iterations' = 0
     /\ (Returns /\ current_node \notin {"build", "review"}) =>
           /\ result'.action_result \in DefaultResult(current_node)
           /\ UNCHANGED <<last_score, output, loop_iterations>>]_vars

\* a node with another id has returned success, and export has ended a run,
\* with the output, the score and the iterations of earlier nodes in place
C33_Witness ==
  /\ output # None
  /\ last_score > 0
  /\ \E i \in 1..Len(history) :
        /\ history[i].node \notin {"build", "review", "loop_detector", "export"}
        /\ history[i].result = "success"
  /\ \/ loop_iterations > 0
     \/ \E i \in 1..Len(history) : history[i].node = "export"

\* --------------------------------------------------------------- the path
\* C34: the history is a path of the graph: its first entry's node is the
\* entry point, and of two consecutive entries the later one's node is what
\* next-node resolution yields for the earlier one's node and result; also
\* across repeated calls of execute_graph.
C34_HistoryIsPath ==
  /\ Len(history) > 0 => history[1].node = workflow_graph.entry_point
  /\ \A i \in 1..(Len(history) - 1) :
        history[i + 1].node =
           NextExpected(workflow_graph.edges, history[i].node, history[i].result)
  /\ (Len(history) > 0 /\ pc \in {"idle", "loop"}) =>
        current_node =
           NextExpected(workflow_graph.edges, LastEntry.node, LastEntry.result)

\* a second call has returned on a history that took a conditioned edge and
\* the edge of a failure
C34_Witness ==
  /\ calls = 2
  /\ pc = "idle"
  /\ Len(history) >= 3
  /\ \E i \in 1..(Len(history) - 1) :
        MatchingEdges(workflow_graph.edges, history[i].node, history[i].result) # {}
  /\ \E i \in 1..(Len(history) - 1) : history[i].result = "failure"

\* ------------------------------------------------------ the recorded score
\* the reviews that returned before entry i was appended
ReviewsBefore(i) ==
  {j \in 1..(i - 1) : history[j].node = "review" /\ history[j].result # "failure"}

\* the score set by the most recent of them, 0 when there is none
ScoreBefore(i) ==
  IF ReviewsBefore(i) = {} THEN 0
  ELSE history[CHOOSE j \in ReviewsBefore(i) : \A k \in ReviewsBefore(i) : k <= j].score

\* C35: the score recorded in a build's history entry is the last_score in
\* effect before that build, the score set by the most recent review executed
\* earlier in the run and 0 if there is none, not a score of the artifact the
\* build produced.
C35_BuildEntryHasEarlierScore ==
  \A i \in 1..Len(history) :
     history[i].node = "build" => history[i].score = ScoreBefore(i)

\* the first build is recorded with 0, a later one with the score of the
\* review before it, while the review after it gave another score
C35_Witness ==
  \E i, j \in 1..Len(history) :
     /\ i < j /\ j < Len(history)
     /\ history[i].node = "build" /\ history[i].score = 0
     /\ history[j].node = "build" /\ history[j].score > 0
     /\ history[j + 1].node = "review"
     /\ history[j + 1].score # history[j].score

\* ------------------------------------------------------ the open circuit
\* C36: a node whose circuit is open has a failure counter of at least
\* circuit_threshold, and a circuit is only opened at the end of an iteration
\* in which all max_attempts attempts of that node failed.
C36_OpenMeansThresholdReached ==
  [][/\ \A n \in DOMAIN circuit_open' :
          IsOpen(n)' => Count(n)' >= config.circuit_threshold
     /\ circuit_open' # circuit_open =>
          /\ AllAttemptsFailed
          /\ attempts = config.max_attempts
          /\ circuit_open' = Put(circuit_open, current_node, TRUE)]_vars

\* a circuit is open on a counter that went past the threshold, after an
\* earlier iteration of that node failed without opening it
C36_Witness ==
  \E n \in DOMAIN circuit_open :
     /\ IsOpen(n)
     /\ Count(n) > config.circuit_threshold
     /\ Cardinality({i \in 1..Len(history) :
                        history[i].node = n /\ history[i].result = "failure"}) >= 2

HasFailureEdge(n) == MatchingEdges(workflow_graph.edges, n, "failure") # {}
HasUnconditionedEdge(n) == FallbackEdges(workflow_graph.edges, n) # {}
OnlyUnconditionedEdges(n) ==
  /\ HasUnconditionedEdge(n)
  /\ \A i \in 1..Len(workflow_graph.edges) :
        workflow_graph.edges[i].from = n => "condition" \notin DOMAIN workflow_graph.edges[i]
FailureEntries(n) ==
  {i \in 1..Len(history) : history[i].node = n /\ history[i].result = "failure"}

\* C37: the end of an iteration in which every attempt of node n failed never
\* halts the run, whether or not it opens n's circuit: a failure entry is
\* appended and current_node moves along the first edge conditioned on failure,
\* else along the first unconditioned edge (for a node with only unconditioned
\* edges, the successor a success would reach), else becomes None. The run
\* halts on an open circuit only at the top of the loop, at a node whose
\* circuit is open and that has a failure entry in the history.
C37_FailureAdvances ==
  [][/\ AllAttemptsFailed =>
           /\ pc' = "loop" /\ halt' = halt /\ ret' = ret
           /\ history' = Append(history, [node |-> current_node, result |-> "failure",
                                          score |-> last_score])
           /\ current_node' = NextExpected(workflow_graph.edges, current_node, "failure")
           /\ (HasFailureEdge(current_node) \/ HasUnconditionedEdge(current_node)) =>
                 current_node' # None
           /\ OnlyUnconditionedEdges(current_node) =>
                 current_node' = NextExpected(workflow_graph.edges, current_node, "success")
           /\ ~(HasFailureEdge(current_node) \/ HasUnconditionedEdge(current_node)) =>
                 current_node' = None
     /\ (pc # "idle" /\ pc' = "idle" /\ halt' = "CircuitOpen") =>
           /\ pc = "loop"
           /\ IsOpen(current_node)
           /\ FailureEntries(current_node) # {}
           /\ UNCHANGED <<runState, breaker>>]_vars

\* the only failed iteration of n opened its circuit and the run went on to
\* execute the node its edge leads to
C37_Witness ==
  \E n \in DOMAIN circuit_open :
     /\ IsOpen(n)
     /\ Cardinality(FailureEntries(n)) = 1
     /\ \E i \in FailureEntries(n) :
           /\ i < Len(history)
           /\ history[i + 1].node # n
           /\ history[i + 1].node =
                 NextExpected(workflow_graph.edges, n, "failure")

\* the entry the running iteration is about to append
Pending ==
  IF pc = "after" /\ result # NoResult
  THEN <<HistoryEntry(current_node, result)>>
  ELSE <<>>
PassedReviews(h) ==
  {i \in 1..Len(h) : h[i].node = "review" /\ h[i].result = "score_passed"}
BuildsSincePass(h) ==
  Cardinality({i \in 1..Len(h) :
                 /\ h[i].node = "build" /\ h[i].result = "success"
                 /\ \A j \in PassedReviews(h) : j < i})

\* C38: loop_iterations is never negative and equals the number of build
\* executions that returned since the latest review that passed (since the
\* start when none has passed), the execution of the running iteration
\* included; a build iteration whose attempts all failed leaves it unchanged.
C38_LoopIterationsCountsBuilds ==
  /\ loop_iterations >= 0
  /\ loop_iterations = BuildsSincePass(history \o Pending)
  /\ \A i \in 1..Len(history) :
        (history[i].node = "build" /\ history[i].result = "failure") =>
           BuildsSincePass(SubSeq(history, 1, i)) = BuildsSincePass(SubSeq(history, 1, i - 1))

\* a build that returned and a failed build iteration before the latest
\* passing review, one build that returned after it
C38_Witness ==
  /\ loop_iterations = 1
  /\ \E p \in PassedReviews(history) :
        /\ \A q \in PassedReviews(history) : q <= p
        /\ \E i, j \in 1..(p - 1) :
              /\ history[i].node = "build" /\ history[i].result = "success"
              /\ history[j].node = "build" /\ history[j].result = "failure"
        /\ \E i \in (p + 1)..Len(history) :
              history[i].node = "build" /\ history[i].result = "success"

AtPrompt == cli_pc = "prompt"

\* C39: whenever the REPL is at its prompt, after any sequence of run, pause,
\* resume, refine and stop commands, no workflow is registered as running: the
\* handle is set only while run_workflow is inside execute_graph and is
\* cleared before run_workflow returns; so the pause flag is false and the
\* queue of refinements is empty in every state.
C39_NothingRunningBetweenCommands ==
  /\ AtPrompt => _current_orchestrator = None
  /\ cli_pc = "running" => _current_orchestrator = Handle
  /\ _workflow_paused = FALSE
  /\ _pending_refinements = <<>>

\* a run that executed the graph, then pause, refine, resume and stop
C39_Witness ==
  /\ AtPrompt
  /\ commands = <<"run", "pause", "refine", "resume", "stop">>
  /\ calls = 1 /\ history # <<>> /\ halt # "none"
  /\ printed = "[OK] No workflow currently running"

====
